---- MODULE Spec2Model ----
(***************************************************************************)
(* Model of backend/automation_engine.py: the AutomationEngine catalogue   *)
(* of automations and its templates, the global job list of the `schedule` *)
(* library it registers time-based automations with, the caller threads    *)
(* that run trigger_automation, and the worker threads that run the jobs.  *)
(***************************************************************************)
EXTENDS Integers, Sequences, FiniteSets, TLC

(* ------------------------------ bounds --------------------------------- *)
\* automation objects ever constructed by create_automation
MaxAutomations == 2
\* jobs ever registered with the schedule library
MaxJobs == 2
\* clock advances
MaxTicks == 1
\* caller threads that may be inside trigger_automation
NumCallers == 2
\* trigger_automation calls that get past the checks
MaxRuns == 2
\* automation objects constructed in the run specification
MaxRunAutomations == 1
\* automation objects constructed in the template specification
MaxTemplateAutomations == 2
\* automation objects constructed in the worker specification
MaxWorkerAutomations == 1
\* instants the clock of the worker specification is moved to
MaxSlots == 3
\* automation objects constructed in the condition specification
MaxCondAutomations == 1
\* worker threads one engine ever starts
MaxThreads == 3
\* automation objects constructed in the frame specification
MaxFrameAutomations == 1
\* automation objects constructed in the in-flight specification
MaxFlightAutomations == 1
\* automation objects constructed in the single-engine specification
MaxTickAutomations == 2
\* trigger_automation calls that get past the checks in the race
\* specification
MaxRaceRuns == 3
\* AutomationEngine instances in the process, each with its worker thread
NumEngines == 2

(* ------------------------ program constants ---------------------------- *)
\* seconds in the period of every().day
Day == 86400
\* "08:00" and "18:00" as seconds after midnight
EightAM == 28800
SixPM == 64800
\* every(2).hours and every(15).minutes in seconds
TwoHours == 7200
FifteenMinutes == 900

TriggerType == {"time_based", "event_based", "condition_based", "manual"}

ActionType == {"send_message", "create_task", "update_task", "send_email",
               "create_calendar_event", "play_music", "set_reminder",
               "log_activity", "custom_script"}

(* --------------------------- call inputs ------------------------------- *)
\* trigger dictionaries passed to create_automation
TriggerInputs ==
    { [type |-> "time_based", condition |-> "0 8 * * *"],
      [type |-> "time_based", condition |-> "30 9 * * 1"],
      [type |-> "manual", condition |-> "start_focus"],
      [type |-> "webhook", condition |-> "0 8 * * *"] }

Act(type, delay) == [type |-> type, delay_seconds |-> delay]

\* action lists passed to create_automation
ActionInputs ==
    { <<Act("create_task", 0), Act("send_message", 30)>>,
      <<Act("log_activity", 0), Act("run_shell", 0)>> }

\* the name passed to create_automation
NameInput == "My automation"

\* condition lists passed to create_automation
ConditionInputs == { <<"work_mode">> }

\* contexts passed to trigger_automation
ContextInputs == { [work_mode |-> TRUE], [work_mode |-> FALSE] }

\* what the run specification passes to create_automation
RunTriggerInputs == { [type |-> "manual", condition |-> "start_focus"] }

RunActionInputs ==
    { <<Act("create_task", 0), Act("send_message", 30)>>,
      <<Act("log_activity", 0)>> }

RunConditionInputs == { <<"work_mode">> }

Callers == 1..NumCallers

\* the worker threads, one per AutomationEngine constructed in the process
Workers == 1..NumEngines

VARIABLES
    now,          \* datetime.now() in whole seconds
    ticks,        \* clock advances so far
    objs,         \* every Automation object constructed, in order
    automations,  \* self.automations: id -> index of the object in objs
    jobs,         \* schedule.jobs: the library's global job list
    registered,   \* jobs ever appended to schedule.jobs
    ret,          \* what the last catalogue call returned or raised
    thr,          \* per caller thread: position inside trigger_automation
    returned,     \* per object: trigger_automation calls that returned a run
    dispatched,   \* _execute_action invocations so far
    worker,       \* per engine: position of its worker thread in run_pending
    eng           \* the lifecycle of one engine: running, worker_thread, the
                  \* threads in _worker_loop, callers in start/stop_worker

vars == <<now, ticks, objs, automations, jobs, registered, ret, thr,
          returned, dispatched, worker, eng>>

(* ----------------------------- helpers --------------------------------- *)
\* Optional[datetime]: <<>> is None, <<t>> is the instant t
None == <<>>

Stored == DOMAIN automations

ObjOf(id) == objs[automations[id]]

IsTimeBased(o) == o.trigger.type = "time_based"

\* jobs of the list js carrying the tag id
JobsTagged(js, id) == { k \in 1..Len(js) : js[k].tag = id }

JobCount(js, id) == Cardinality(JobsTagged(js, id))

RECURSIVE SelectSeqBy(_, _, _)
\* the elements s[k] with k in keep, in order
SelectSeqBy(s, keep, k) ==
    IF k > Len(s) THEN <<>>
    ELSE (IF k \in keep THEN <<s[k]>> ELSE <<>>) \o SelectSeqBy(s, keep, k + 1)

\* schedule.clear(tag): drop every job carrying the tag
ClearTag(js, id) == SelectSeqBy(js, { k \in 1..Len(js) : js[k].tag # id }, 1)

\* the first instant after t whose time of day is at
NextAt(t, at) == (t - (t % Day)) + at + (IF t % Day < at THEN 0 ELSE Day)

\* Job._schedule_next_run
NextRun(sched, t) ==
    IF sched.at = None THEN t + sched.every ELSE NextAt(t, sched.at[1])

\* the four literal expressions _schedule_automation knows
Schedules(cron) ==
    CASE cron = "0 8 * * *"   -> <<[every |-> Day, at |-> <<EightAM>>]>>
      [] cron = "0 18 * * *"  -> <<[every |-> Day, at |-> <<SixPM>>]>>
      [] cron = "0 */2 * * *" -> <<[every |-> TwoHours, at |-> None]>>
      [] cron = "15 * * * *"  -> <<[every |-> FifteenMinutes, at |-> None]>>
      [] OTHER                -> <<>>

\* _schedule_automation(automation): the job list after the call
ScheduleAutomation(js, o, ref, jid, t) ==
    IF ~IsTimeBased(o) THEN js
    ELSE IF Schedules(o.trigger.condition) = <<>> THEN js
    ELSE LET sched == Schedules(o.trigger.condition)[1]
         IN Append(js, [jid |-> jid, tag |-> o.id, obj |-> ref,
                        sched |-> sched, next_run |-> NextRun(sched, t)])

\* does _schedule_automation append a job for o
Schedulable(o) == IsTimeBased(o) /\ Schedules(o.trigger.condition) # <<>>

NoCall == [op |-> "none", id |-> 0, result |-> "none"]

IdleThread == [pc |-> "idle", obj |-> 0, i |-> 0, results |-> <<>>, tmp |-> 0]

\* a worker thread in time.sleep(1), between two calls of run_pending
SleepingWorker ==
    [pc |-> "sleep", queue |-> <<>>, i |-> 0, results |-> <<>>, wake |-> 0]

RECURSIVE SumSeq(_)
SumSeq(s) == IF s = <<>> THEN 0 ELSE Head(s) + SumSeq(Tail(s))

Init ==
    /\ now = 0
    /\ ticks = 0
    /\ objs = <<>>
    /\ automations = [id \in {} |-> 0]
    /\ jobs = <<>>
    /\ registered = 0
    /\ ret = NoCall
    /\ thr = [t \in Callers |-> IdleThread]
    /\ returned = <<>>
    /\ dispatched = 0
    /\ worker = [w \in Workers |-> SleepingWorker]
    /\ eng = [running |-> TRUE, worker_thread |-> 1, loops |-> {1},
              started |-> 1, pc |-> [c \in Callers |-> "idle"],
              joined |-> [c \in Callers |-> 0]]

(* ----------------------- catalogue operations -------------------------- *)
\* TriggerType(trigger['type']) does not raise ValueError
ValidTrigger(trigger) == trigger.type \in TriggerType

\* a validation that looks at the first action only
ValidActionsFirstOnly(actions) ==
    actions = <<>> \/ actions[1].type \in ActionType

\* ActionType(action_data['type']) raises for no element of the list
ValidActions(actions) == \A k \in 1..Len(actions) : actions[k].type \in ActionType

\* f"auto_{int(datetime.now().timestamp())}"
NewId(t) == t

\* AutomationTrigger(type, condition, parameters=trigger.get('parameters', {}))
ParseTrigger(trigger) ==
    [type |-> trigger.type, condition |-> trigger.condition,
     parameters |-> IF "parameters" \in DOMAIN trigger
                    THEN trigger.parameters ELSE {}]

\* an Automation(...) whose success_rate starts at 0.0
NewAutomationZeroRate(id, name, trigger, actions, conditions, t) ==
    [id |-> id, name |-> name, trigger |-> trigger, actions |-> actions,
     conditions |-> conditions, enabled |-> TRUE, created_at |-> t,
     last_run |-> None, run_count |-> 0,
     success_rate |-> [num |-> 0, den |-> 1]]

\* the Automation(...) constructed by create_automation
NewAutomation(id, name, trigger, actions, conditions, t) ==
    [id |-> id, name |-> name, trigger |-> trigger, actions |-> actions,
     conditions |-> conditions, enabled |-> TRUE, created_at |-> t,
     last_run |-> None, run_count |-> 0,
     success_rate |-> [num |-> 1, den |-> 1]]

\* create_automation(name, trigger, actions, conditions)
CreateAutomation(name, trigger, actions, conditions) ==
    LET id  == NewId(now)
        o   == NewAutomation(id, name, ParseTrigger(trigger), actions,
                             conditions, now)
        ref == Len(objs) + 1
    IN IF ~ValidTrigger(trigger) \/ ~ValidActions(actions)
       THEN /\ ret' = [op |-> "create", id |-> id, result |-> "ValueError"]
            /\ UNCHANGED <<objs, automations, jobs, registered, returned>>
       ELSE /\ objs' = Append(objs, o)
            /\ returned' = Append(returned, 0)
            /\ automations' = [k \in Stored \cup {id} |->
                                 IF k = id THEN ref ELSE automations[k]]
            /\ jobs' = ScheduleAutomation(jobs, o, ref, registered + 1, now)
            /\ registered' = registered + Len(jobs') - Len(jobs)
            /\ ret' = [op |-> "create", id |-> id, result |-> "created"]

\* ids a caller may pass: every id ever returned, and one never issued
IdInputs == { objs[k].id : k \in DOMAIN objs } \cup { now + 1 }

\* a not-found return that clears the whole job list on its way
NotFoundClearing(op, id) ==
    /\ ret' = [op |-> op, id |-> id, result |-> "not_found"]
    /\ jobs' = <<>>
    /\ UNCHANGED <<objs, automations, registered>>

\* return {"error": "Automation not found"}
NotFound(op, id) ==
    /\ ret' = [op |-> op, id |-> id, result |-> "not_found"]
    /\ UNCHANGED <<objs, automations, jobs, registered>>

\* enable_automation(automation_id)
EnableAutomation(id) ==
    IF id \notin Stored THEN NotFound("enable", id)
    ELSE LET ref == automations[id]
             o   == [objs[ref] EXCEPT !.enabled = TRUE]
         IN /\ objs' = [objs EXCEPT ![ref] = o]
            /\ jobs' = ScheduleAutomation(jobs, o, ref, registered + 1, now)
            /\ registered' = registered + Len(jobs') - Len(jobs)
            /\ ret' = [op |-> "enable", id |-> id, result |-> "success"]
            /\ UNCHANGED automations

\* an unscheduling that cancels one job of the tag and keeps the others
UnscheduleOne(js, o) ==
    IF IsTimeBased(o) /\ JobsTagged(js, o.id) # {}
    THEN LET first == CHOOSE k \in JobsTagged(js, o.id) :
                          \A m \in JobsTagged(js, o.id) : k <= m
         IN SelectSeqBy(js, (1..Len(js)) \ {first}, 1)
    ELSE js

\* the job list after disable_automation / delete_automation unschedules
Unschedule(js, o) == IF IsTimeBased(o) THEN ClearTag(js, o.id) ELSE js

\* disable_automation(automation_id)
DisableAutomation(id) ==
    IF id \notin Stored THEN NotFound("disable", id)
    ELSE LET ref == automations[id]
         IN /\ objs' = [objs EXCEPT ![ref].enabled = FALSE]
            /\ jobs' = Unschedule(jobs, objs[ref])
            /\ ret' = [op |-> "disable", id |-> id, result |-> "success"]
            /\ UNCHANGED <<automations, registered>>

\* self.automations after del self.automations[automation_id]
Remove(autos, id) == [k \in (DOMAIN autos) \ {id} |-> autos[k]]

\* delete_automation(automation_id)
DeleteAutomation(id) ==
    IF id \notin Stored THEN NotFound("delete", id)
    ELSE /\ jobs' = Unschedule(jobs, ObjOf(id))
         /\ automations' = Remove(automations, id)
         /\ ret' = [op |-> "delete", id |-> id, result |-> "success"]
         /\ UNCHANGED <<objs, registered>>

(* ------------------- catalogue calls made by callers ------------------- *)
\* the call constructs an object, and registers a job, only within the bounds
CreateRoom(trigger, actions) ==
    (ValidTrigger(trigger) /\ ValidActions(actions)) =>
        /\ Len(objs) < MaxAutomations
        /\ (trigger.type = "time_based" /\ Schedules(trigger.condition) # <<>>)
              => registered < MaxJobs

CreateStep(trigger, actions, conditions) ==
    /\ CreateAutomation(NameInput, trigger, actions, conditions)
    /\ UNCHANGED <<now, ticks, thr, dispatched, worker, eng>>

EnableStep(id) ==
    /\ EnableAutomation(id)
    /\ UNCHANGED <<now, ticks, thr, returned, dispatched, worker, eng>>

DisableStep(id) ==
    /\ DisableAutomation(id)
    /\ UNCHANGED <<now, ticks, thr, returned, dispatched, worker, eng>>

DeleteStep(id) ==
    /\ DeleteAutomation(id)
    /\ UNCHANGED <<now, ticks, thr, returned, dispatched, worker, eng>>

Create ==
    \E trigger \in TriggerInputs, actions \in ActionInputs,
       conditions \in ConditionInputs :
        CreateRoom(trigger, actions) /\ CreateStep(trigger, actions, conditions)

Enable ==
    \E id \in IdInputs :
        /\ (id \in Stored /\ Schedulable(ObjOf(id))) => registered < MaxJobs
        /\ EnableStep(id)

Disable == \E id \in IdInputs : DisableStep(id)

Delete == \E id \in IdInputs : DeleteStep(id)

(* ------------------------------ clock ---------------------------------- *)
\* the clock reaches the next second
Advance ==
    /\ ticks < MaxTicks
    /\ now' = now + 1
    /\ ticks' = ticks + 1
    /\ UNCHANGED <<objs, automations, jobs, registered, ret, thr, returned,
                   dispatched, worker, eng>>

Next == Create \/ Enable \/ Disable \/ Delete \/ Advance

Spec == Init /\ [][Next]_vars

(* ------------------------- trigger_automation -------------------------- *)
\* context.get(key, False)
Get(ctx, key) == IF key \in DOMAIN ctx THEN ctx[key] ELSE FALSE

\* _has_upcoming_meeting()
HasUpcomingMeeting == FALSE

\* one branch of the loop of _check_conditions: is the condition met
ConditionMet(condition, ctx) ==
    CASE condition = "work_mode"        -> Get(ctx, "work_mode")
      [] condition = "personal_mode"    -> Get(ctx, "personal_mode")
      [] condition = "upcoming_meeting" -> HasUpcomingMeeting
      [] OTHER                          -> TRUE

\* _check_conditions(conditions, context)
CheckConditions(conditions, ctx) ==
    \A k \in 1..Len(conditions) : ConditionMet(conditions[k], ctx)

\* outcomes of _execute_action: TRUE it returns, FALSE it raises; the
\* branches that touch neither the gateway nor a required parameter return
CanRaise(type) == type \notin {"play_music", "log_activity", "custom_script"}

Outcomes(action) == IF CanRaise(action.type) THEN {TRUE, FALSE} ELSE {TRUE}

\* what _execute_action returns when it does not raise: the payload of the
\* branch of the action type, or the error payload of the final else
Returned(type) ==
    IF type = "custom_script" THEN "error_payload" ELSE "payload"

\* an entry whose success flag is read from the returned payload
ActionResultFromPayload(action, ok) ==
    [action |-> action.type,
     success |-> ok /\ Returned(action.type) # "error_payload",
     result |-> IF ok THEN <<Returned(action.type)>> ELSE None]

\* the entry appended to results for one action of _execute_automation:
\* with the returned value, or without one when the dispatch raised
ActionResult(action, ok) ==
    [action |-> action.type, success |-> ok,
     result |-> IF ok THEN <<Returned(action.type)>> ELSE None]

\* where a thread goes after the action at position i of the list
AfterAction(actions, i) == IF i < Len(actions) THEN "exec" ELSE "last_run"

\* the checks without the test of the enabled flag
CheckedCallIgnoresEnabled(id, ctx) ==
    IF id \notin Stored THEN "not_found"
    ELSE IF ~CheckConditions(ObjOf(id).conditions, ctx) THEN "conditions_not_met"
    ELSE "run"

\* the checks without the call of _check_conditions
CheckedCallIgnoresConditions(id, ctx) ==
    IF id \notin Stored THEN "not_found"
    ELSE IF ~ObjOf(id).enabled THEN "disabled"
    ELSE "run"

\* the checks of trigger_automation, up to the call of _execute_automation
CheckedCall(id, ctx) ==
    IF id \notin Stored THEN "not_found"
    ELSE IF ~ObjOf(id).enabled THEN "disabled"
    ELSE IF ~CheckConditions(ObjOf(id).conditions, ctx) THEN "conditions_not_met"
    ELSE "run"

\* threads between the checks and the return of trigger_automation
InFlight == { t \in Callers : thr[t].pc # "idle" }

\* idle threads are interchangeable: the first of them serves the call
FirstIdle(t) == thr[t].pc = "idle" /\ \A u \in Callers : u < t => thr[u].pc # "idle"

\* trigger_automation(automation_id, context), lines 425-434
TriggerCall(t, id, ctx) ==
    /\ FirstIdle(t)
    /\ LET outcome == CheckedCall(id, ctx)
       IN IF outcome # "run"
          THEN /\ ret' = [op |-> "trigger", id |-> id, result |-> outcome]
               /\ UNCHANGED thr
          ELSE /\ thr' = [thr EXCEPT ![t] =
                            [pc |-> AfterAction(ObjOf(id).actions, 0),
                             obj |-> automations[id], i |-> 1,
                             results |-> <<>>, tmp |-> 0]]
               /\ UNCHANGED ret
    /\ UNCHANGED <<now, ticks, objs, automations, jobs, registered,
                   returned, dispatched, worker, eng>>

\* an iteration whose except clause leaves the loop
ExecuteActionAborting(t) ==
    /\ thr[t].pc = "exec"
    /\ LET actions == objs[thr[t].obj].actions
           i == thr[t].i
       IN \E ok \in Outcomes(actions[i]) :
            thr' = [thr EXCEPT ![t].results = Append(@, ActionResult(actions[i], ok)),
                               ![t].i = i + 1,
                               ![t].pc = IF ok THEN AfterAction(actions, i)
                                         ELSE "last_run"]
    /\ dispatched' = dispatched + 1
    /\ UNCHANGED <<now, ticks, objs, automations, jobs, registered, ret,
                   returned, worker, eng>>

\* one iteration of the loop of _execute_automation
ExecuteAction(t) ==
    /\ thr[t].pc = "exec"
    /\ LET actions == objs[thr[t].obj].actions
           i == thr[t].i
       IN \E ok \in Outcomes(actions[i]) :
            thr' = [thr EXCEPT ![t].results = Append(@, ActionResult(actions[i], ok)),
                               ![t].i = i + 1,
                               ![t].pc = AfterAction(actions, i)]
    /\ dispatched' = dispatched + 1
    /\ UNCHANGED <<now, ticks, objs, automations, jobs, registered, ret,
                   returned, worker, eng>>

\* automation.last_run = datetime.now()
SetLastRun(t) ==
    /\ thr[t].pc = "last_run"
    /\ objs' = [objs EXCEPT ![thr[t].obj].last_run = <<now>>]
    /\ thr' = [thr EXCEPT ![t].pc = "read"]
    /\ UNCHANGED <<now, ticks, automations, jobs, registered, ret, returned,
                   dispatched, worker, eng>>

\* automation.run_count += 1: the load of the attribute
ReadRunCount(t) ==
    /\ thr[t].pc = "read"
    /\ thr' = [thr EXCEPT ![t].tmp = objs[thr[t].obj].run_count,
                          ![t].pc = "write"]
    /\ UNCHANGED <<now, ticks, objs, automations, jobs, registered, ret,
                   returned, dispatched, worker, eng>>

\* automation.run_count += 1: the store of the attribute, and the return
WriteRunCount(t) ==
    /\ thr[t].pc = "write"
    /\ objs' = [objs EXCEPT ![thr[t].obj].run_count = thr[t].tmp + 1]
    /\ thr' = [thr EXCEPT ![t] = IdleThread]
    /\ returned' = [returned EXCEPT ![thr[t].obj] = @ + 1]
    /\ ret' = [op |-> "trigger", id |-> objs[thr[t].obj].id, result |-> "run"]
    /\ UNCHANGED <<now, ticks, automations, jobs, registered,
                   dispatched, worker, eng>>

\* a call may start a run only within the bound on runs
RunRoom(id, ctx) ==
    CheckedCall(id, ctx) = "run" =>
        Cardinality(InFlight) + SumSeq(returned) < MaxRuns

Trigger == \E t \in Callers, id \in IdInputs, ctx \in ContextInputs :
               RunRoom(id, ctx) /\ TriggerCall(t, id, ctx)

Execute == \E t \in Callers : ExecuteAction(t)

UpdateStats == \E t \in Callers :
                   SetLastRun(t) \/ ReadRunCount(t) \/ WriteRunCount(t)

\* create_automation as the run specification calls it
RunCreate ==
    \E trigger \in RunTriggerInputs, actions \in RunActionInputs,
       conditions \in RunConditionInputs :
        /\ Len(objs) < MaxRunAutomations
        /\ CreateStep(trigger, actions, conditions)

RunNext == RunCreate \/ Disable \/ Trigger \/ Execute \/ UpdateStats

\* callers creating, disabling and triggering automations
SpecRun == Init /\ [][RunNext]_vars

\* a call may start a run only within the bound of the race specification
RaceRoom(id, ctx) ==
    CheckedCall(id, ctx) = "run" =>
        Cardinality(InFlight) + SumSeq(returned) < MaxRaceRuns

RaceTrigger == \E t \in Callers, id \in IdInputs, ctx \in ContextInputs :
                   RaceRoom(id, ctx) /\ TriggerCall(t, id, ctx)

RaceNext == RunCreate \/ RaceTrigger \/ Execute \/ UpdateStats

\* what the condition specification passes to create_automation
CondTriggerInputs == { [type |-> "manual", condition |-> "start_focus"] }

CondActionInputs == { <<Act("custom_script", 0), Act("send_message", 0)>> }

CondConditionInputs == { <<>>, <<"work_mode", "full_moon">> }

CondCreate ==
    \E trigger \in CondTriggerInputs, actions \in CondActionInputs,
       conditions \in CondConditionInputs :
        /\ Len(objs) < MaxCondAutomations
        /\ CreateStep(trigger, actions, conditions)

CondNext == CondCreate \/ Trigger \/ Execute \/ UpdateStats

\* callers triggering automations with no condition, and with a condition
\* list that names a condition the evaluator does not know
SpecCond == Init /\ [][CondNext]_vars

\* callers triggering one automation often enough for a thread to return
\* while another has completed two runs
SpecRace == Init /\ [][RaceNext]_vars

(* ------------------------ create_from_template ------------------------- *)
\* self.templates as _initialize_templates builds it
Templates ==
    [morning_routine |->
        [name |-> "Morning Routine",
         trigger |-> [type |-> "time_based", condition |-> "0 8 * * *",
                      parameters |-> {}],
         actions |-> <<Act("create_task", 0), Act("send_message", 30)>>,
         conditions |-> <<"work_mode">>],
     task_completion_celebration |->
        [name |-> "Task Completion Celebration",
         trigger |-> [type |-> "event_based", condition |-> "task_completed",
                      parameters |-> {}],
         actions |-> <<Act("send_message", 0), Act("play_music", 5)>>,
         conditions |-> <<>>],
     focus_time_automation |->
        [name |-> "Focus Time Automation",
         trigger |-> [type |-> "manual", condition |-> "start_focus",
                      parameters |-> {}],
         actions |-> <<Act("play_music", 0), Act("send_message", 0),
                       Act("set_reminder", 0)>>,
         conditions |-> <<>>],
     meeting_preparation |->
        [name |-> "Meeting Preparation",
         trigger |-> [type |-> "time_based", condition |-> "15 * * * *",
                      parameters |-> {}],
         actions |-> <<Act("send_message", 0)>>,
         conditions |-> <<"upcoming_meeting">>],
     evening_wind_down |->
        [name |-> "Evening Wind Down",
         trigger |-> [type |-> "time_based", condition |-> "0 18 * * *",
                      parameters |-> {}],
         actions |-> <<Act("send_message", 0), Act("create_task", 0)>>,
         conditions |-> <<"work_mode">>],
     health_reminder |->
        [name |-> "Health Reminder",
         trigger |-> [type |-> "time_based", condition |-> "0 */2 * * *",
                      parameters |-> {}],
         actions |-> <<Act("send_message", 0)>>,
         conditions |-> <<"work_mode">>],
     deadline_alert |->
        [name |-> "Deadline Alert",
         trigger |-> [type |-> "condition_based",
                      condition |-> "deadline_approaching",
                      parameters |-> {<<"hours_ahead", 24>>}],
         actions |-> <<Act("send_message", 0), Act("update_task", 0)>>,
         conditions |-> <<>>]]

\* a dictionary is a record of optionals: None for a key that is absent,
\* <<v>> for a key bound to v.  The trigger dictionary without any key:
NoKeys == [type |-> None, condition |-> None, parameters |-> None]

\* d.get(key, default)
DictGet(d, key, default) == IF d[key] = None THEN default ELSE d[key][1]

\* {**template, **override}
Merge(template, override) ==
    [key \in DOMAIN template |-> DictGet(override, key, template[key])]

\* template names passed to create_from_template, the last one unknown
TemplateNameInputs == {"morning_routine", "deadline_alert", "weekly_review"}

\* customizations passed to create_from_template
CustomizationInputs ==
    { [name |-> None, trigger |-> None, actions |-> None,
       conditions |-> None],
      [name |-> <<"Mine">>,
       trigger |-> <<[type |-> <<"manual">>, condition |-> <<"on_demand">>,
                      parameters |-> None]>>,
       actions |-> None, conditions |-> None],
      [name |-> None, trigger |-> None,
       actions |-> << <<Act("log_activity", 0)>> >>,
       conditions |-> << <<"full_moon">> >>] }

\* create_from_template(template_name, customizations)
CreateFromTemplate(template_name, customizations) ==
    IF template_name \notin DOMAIN Templates
    THEN /\ ret' = [op |-> "create_from_template", id |-> 0,
                    result |-> "template_not_found"]
         /\ UNCHANGED <<objs, automations, jobs, registered, returned>>
    ELSE LET template == Templates[template_name]
             name == DictGet(customizations, "name", template.name)
             trigger == Merge(template.trigger,
                              DictGet(customizations, "trigger", NoKeys))
             actions == DictGet(customizations, "actions", template.actions)
             conditions == DictGet(customizations, "conditions",
                                   template.conditions)
         IN CreateAutomation(name, trigger, actions, conditions)

TemplateStep(template_name, customizations) ==
    /\ CreateFromTemplate(template_name, customizations)
    /\ UNCHANGED <<now, ticks, thr, dispatched, worker, eng>>

\* the call constructs an object only within the bound
TemplateRoom(template_name) ==
    template_name \in DOMAIN Templates => Len(objs) < MaxTemplateAutomations

FromTemplate ==
    \E template_name \in TemplateNameInputs,
       customizations \in CustomizationInputs :
        TemplateRoom(template_name)
          /\ TemplateStep(template_name, customizations)

TemplateNext == FromTemplate \/ Delete \/ Advance

\* callers creating automations from templates and deleting them
SpecTemplate == Init /\ [][TemplateNext]_vars

(* --------------------------- worker threads ---------------------------- *)
\* the context of a scheduled run: the {} bound by _schedule_automation
NoContext == [key \in {} |-> FALSE]

\* the jobs of the list js for which Job.should_run holds at t
Runnable(js, t) == SelectSeqBy(js, { k \in 1..Len(js) : js[k].next_run <= t }, 1)

RECURSIVE InsertJob(_, _)
\* j placed into the sorted list s, after the jobs that are not due later
InsertJob(s, j) ==
    IF s = <<>> THEN <<j>>
    ELSE IF Head(s).next_run <= j.next_run
         THEN <<Head(s)>> \o InsertJob(Tail(s), j)
         ELSE <<j>> \o s

RECURSIVE SortJobs(_)
\* sorted(runnable_jobs): by next_run, jobs due together in list order
SortJobs(s) ==
    IF s = <<>> THEN <<>>
    ELSE InsertJob(SortJobs(SubSeq(s, 1, Len(s) - 1)), s[Len(s)])

\* schedule.run_pending(): the jobs due now, sorted, are set aside to be run
RunPending(w) ==
    /\ worker[w].pc = "sleep"
    /\ Runnable(jobs, now) # <<>>
    /\ worker' = [worker EXCEPT ![w] =
                     [pc |-> "due", queue |-> SortJobs(Runnable(jobs, now)),
                      i |-> 0, results |-> <<>>, wake |-> 0]]
    /\ UNCHANGED <<now, ticks, objs, automations, jobs, registered, ret, thr,
                   returned, dispatched, eng>>

\* Job.run() calls the job function: _execute_automation(automation, {})
\* is entered for the first job set aside, whatever the automation's state
StartJob(w) ==
    /\ worker[w].pc = "due"
    /\ worker' = [worker EXCEPT ![w].pc = "job", ![w].i = 1,
                                ![w].results = <<>>]
    /\ UNCHANGED <<now, ticks, objs, automations, jobs, registered, ret, thr,
                   returned, dispatched, eng>>

\* a sleep that returns at once
WakeAtOnce(t, action) == t

\* the instant at which time.sleep(action.delay_seconds) entered at t returns
WakeAt(t, action) == t + action.delay_seconds

\* time.sleep(action.delay_seconds) of an iteration whose action has a delay
Sleep(w) ==
    /\ worker[w].pc = "job"
    /\ LET actions == objs[Head(worker[w].queue).obj].actions
           i == worker[w].i
       IN /\ i <= Len(actions)
          /\ actions[i].delay_seconds > 0
          /\ worker' = [worker EXCEPT ![w].pc = "delay",
                                      ![w].wake = WakeAt(now, actions[i])]
    /\ UNCHANGED <<now, ticks, objs, automations, jobs, registered, ret, thr,
                   returned, dispatched, eng>>

\* one iteration of the loop of _execute_automation, in a worker thread:
\* the action is dispatched at once when it has no delay, and when its
\* sleep has returned otherwise
WorkerExecuteAction(w) ==
    /\ worker[w].pc \in {"job", "delay"}
    /\ LET actions == objs[Head(worker[w].queue).obj].actions
           i == worker[w].i
       IN /\ i <= Len(actions)
          /\ IF worker[w].pc = "job" THEN actions[i].delay_seconds = 0
             ELSE now >= worker[w].wake
          /\ \E ok \in Outcomes(actions[i]) :
               worker' = [worker EXCEPT
                            ![w].results = Append(@, ActionResult(actions[i], ok)),
                            ![w].i = i + 1,
                            ![w].pc = "job",
                            ![w].wake = 0]
    /\ dispatched' = dispatched + 1
    /\ UNCHANGED <<now, ticks, objs, automations, jobs, registered, ret, thr,
                   returned, eng>>

\* a job that is cancelled once it has run
RearmCancelling(js, jid, t) ==
    SelectSeqBy(js, { k \in 1..Len(js) : js[k].jid # jid }, 1)

\* the job list after Job._schedule_next_run of the job jid at t
Rearm(js, jid, t) ==
    [k \in 1..Len(js) |->
        IF js[k].jid = jid
        THEN [js[k] EXCEPT !.next_run = NextRun(js[k].sched, t)]
        ELSE js[k]]

\* a run_pending that is left when a job with a failed action returns
JobDoneAborting(w) ==
    /\ worker[w].pc = "job"
    /\ LET job == Head(worker[w].queue)
           rest == Tail(worker[w].queue)
       IN /\ worker[w].i > Len(objs[job.obj].actions)
          /\ jobs' = Rearm(jobs, job.jid, now)
          /\ worker' = [worker EXCEPT ![w] =
                          IF rest = <<>>
                             \/ \E k \in 1..Len(worker[w].results) :
                                   ~worker[w].results[k].success
                          THEN SleepingWorker
                          ELSE [pc |-> "due", queue |-> rest, i |-> 0,
                                results |-> <<>>, wake |-> 0]]
    /\ UNCHANGED <<now, ticks, objs, automations, registered, ret, thr,
                   returned, dispatched, eng>>

\* _execute_automation returns its result to Job.run(), which re-arms the
\* job; run_pending goes on to the next job set aside, or returns
JobDone(w) ==
    /\ worker[w].pc = "job"
    /\ LET job == Head(worker[w].queue)
           rest == Tail(worker[w].queue)
       IN /\ worker[w].i > Len(objs[job.obj].actions)
          /\ jobs' = Rearm(jobs, job.jid, now)
          /\ worker' = [worker EXCEPT ![w] =
                          IF rest = <<>> THEN SleepingWorker
                          ELSE [pc |-> "due", queue |-> rest, i |-> 0,
                                results |-> <<>>, wake |-> 0]]
    /\ UNCHANGED <<now, ticks, objs, automations, registered, ret, thr,
                   returned, dispatched, eng>>

\* the instants at which a job becomes due or a sleeping worker wakes
Instants ==
    { jobs[k].next_run : k \in 1..Len(jobs) }
      \cup { worker[w].wake : w \in { v \in Workers : worker[v].pc = "delay" } }

\* the clock reaches a later instant at which a job is due or a sleep ends
Elapse ==
    /\ ticks < MaxSlots
    /\ \E t \in Instants :
          /\ t > now
          /\ now' = t
    /\ ticks' = ticks + 1
    /\ UNCHANGED <<objs, automations, jobs, registered, ret, thr, returned,
                   dispatched, worker, eng>>

\* create_from_template(template_name) without customizations
NoCustomizations ==
    [name |-> None, trigger |-> None, actions |-> None, conditions |-> None]

\* the time-based templates the worker specification instantiates
WorkerTemplateInputs == {"morning_routine", "meeting_preparation"}

WorkerCreate ==
    \E template_name \in WorkerTemplateInputs :
        /\ Len(objs) < MaxWorkerAutomations
        /\ TemplateStep(template_name, NoCustomizations)

Poll == \E w \in Workers : RunPending(w)

Fire == \E w \in Workers : StartJob(w)

Delay == \E w \in Workers : Sleep(w)

WorkerExecute == \E w \in Workers : WorkerExecuteAction(w)

Finish == \E w \in Workers : JobDone(w)

WorkerNext ==
    WorkerCreate \/ Disable \/ Elapse \/ Poll \/ Fire \/ Delay
      \/ WorkerExecute \/ Finish

\* the worker threads of the engines running the jobs of time-based
\* automations while callers create and disable them
SpecWorker == Init /\ [][WorkerNext]_vars

\* the worker thread of the engine that app.py constructs
TheWorker == 1

\* the templates the single-engine specification instantiates
TickTemplateInputs == {"morning_routine"}

TickCreate ==
    \E template_name \in TickTemplateInputs :
        /\ Len(objs) < MaxTickAutomations
        /\ TemplateStep(template_name, NoCustomizations)

TickNext ==
    \/ TickCreate
    \/ Disable
    \/ Advance
    \/ Elapse
    \/ RunPending(TheWorker)
    \/ StartJob(TheWorker)
    \/ Sleep(TheWorker)
    \/ WorkerExecuteAction(TheWorker)
    \/ JobDone(TheWorker)

\* one engine: its worker thread running the jobs of automations created
\* at different seconds and due at the same instant
SpecTick == Init /\ [][TickNext]_vars

\* what the frame specification passes to create_automation
FrameTriggerInputs == { [type |-> "time_based", condition |-> "0 8 * * *"] }

FrameActionInputs == { <<Act("log_activity", 0)>> }

FrameConditionInputs == { <<>> }

FrameCreate ==
    \E trigger \in FrameTriggerInputs, actions \in FrameActionInputs,
       conditions \in FrameConditionInputs :
        /\ Len(objs) < MaxFrameAutomations
        /\ CreateStep(trigger, actions, conditions)

FrameNext ==
    FrameCreate \/ Enable \/ Disable \/ Delete \/ Trigger \/ Execute
      \/ UpdateStats

\* callers enabling, disabling, deleting and triggering a time-based
\* automation, by its id and by ids that are not stored
SpecFrame == Init /\ [][FrameNext]_vars

\* the template the in-flight specification instantiates
FlightTemplateInputs == {"morning_routine"}

FlightCreate ==
    \E template_name \in FlightTemplateInputs :
        /\ Len(objs) < MaxFlightAutomations
        /\ TemplateStep(template_name, NoCustomizations)

FlightNext ==
    \/ FlightCreate
    \/ Disable
    \/ Delete
    \/ Trigger
    \/ Execute
    \/ UpdateStats
    \/ Elapse
    \/ RunPending(TheWorker)
    \/ StartJob(TheWorker)
    \/ Sleep(TheWorker)
    \/ WorkerExecuteAction(TheWorker)
    \/ JobDone(TheWorker)

\* one engine: callers triggering, disabling and deleting a time-based
\* automation while the worker thread runs its job
SpecFlight == Init /\ [][FlightNext]_vars

(* ---------------------- start_worker / stop_worker --------------------- *)
\* start_worker and stop_worker touch nothing but the engine's lifecycle
LifecycleOnly ==
    UNCHANGED <<now, ticks, objs, automations, jobs, registered, ret, thr,
                returned, dispatched, worker>>

\* start_worker(): if self.running: return
StartCheck(c) ==
    /\ eng.pc[c] = "idle"
    /\ eng' = IF eng.running THEN eng ELSE [eng EXCEPT !.pc[c] = "set"]
    /\ LifecycleOnly

\* start_worker(): self.running = True
StartSet(c) ==
    /\ eng.pc[c] = "set"
    /\ eng' = [eng EXCEPT !.running = TRUE, !.pc[c] = "spawn"]
    /\ LifecycleOnly

\* start_worker(): self.worker_thread = Thread(...); self.worker_thread.start()
StartThread(c) ==
    /\ eng.pc[c] = "spawn"
    /\ eng.started < MaxThreads
    /\ eng' = [eng EXCEPT !.worker_thread = eng.started + 1,
                          !.loops = @ \cup {eng.started + 1},
                          !.started = @ + 1,
                          !.pc[c] = "idle"]
    /\ LifecycleOnly

\* stop_worker(): self.running = False; if self.worker_thread: the join is
\* entered on the thread the attribute holds
StopSet(c) ==
    /\ eng.pc[c] = "idle"
    /\ eng' = IF eng.worker_thread = 0
              THEN [eng EXCEPT !.running = FALSE]
              ELSE [eng EXCEPT !.running = FALSE, !.pc[c] = "join",
                               !.joined[c] = eng.worker_thread]
    /\ LifecycleOnly

\* stop_worker(): self.worker_thread.join() returns when that thread has
\* left _worker_loop
StopJoin(c) ==
    /\ eng.pc[c] = "join"
    /\ eng.joined[c] \notin eng.loops
    /\ eng' = [eng EXCEPT !.pc[c] = "idle", !.joined[c] = 0]
    /\ LifecycleOnly

\* _worker_loop: while self.running is evaluated false and the thread ends
LoopExit(n) ==
    /\ n \in eng.loops
    /\ ~eng.running
    /\ eng' = [eng EXCEPT !.loops = @ \ {n}]
    /\ LifecycleOnly

StartWorker == \E c \in Callers : StartCheck(c) \/ StartSet(c) \/ StartThread(c)

StopWorker == \E c \in Callers : StopSet(c) \/ StopJoin(c)

WorkerLoop == \E n \in 1..MaxThreads : LoopExit(n)

LoopNext == StartWorker \/ StopWorker \/ WorkerLoop

\* callers starting and stopping the worker of one engine
SpecLoop == Init /\ [][LoopNext]_vars

(* ============================ properties =============================== *)
\* an input of create_automation that names a kind outside the enums
UnknownKind(trigger, actions) ==
    \/ trigger.type \notin TriggerType
    \/ \E k \in 1..Len(actions) : actions[k].type \notin ActionType

\* C1: every stored automation that is enabled and time-based has exactly
\* one job tagged with its id, and every id that is disabled or not stored
\* has none.
C1_OneTimerWhileEnabled ==
    \A id \in IdInputs :
        IF id \in Stored /\ ObjOf(id).enabled
        THEN IsTimeBased(ObjOf(id)) => JobCount(jobs, id) = 1
        ELSE JobCount(jobs, id) = 0

\* C2: no two automations constructed during the lifetime of the engine
\* were given the same id.
C2_IdsAreFresh ==
    \A i, j \in DOMAIN objs : i # j => objs[i].id # objs[j].id

\* C3: a create_automation call whose trigger type or any action type is
\* outside the enums raises the validation error and changes neither the
\* automations map, nor the objects, nor the job list.
C3_UnknownKindRejected ==
    [][\A trigger \in TriggerInputs, actions \in ActionInputs,
          conditions \in ConditionInputs :
            (UnknownKind(trigger, actions)
               /\ CreateStep(trigger, actions, conditions))
            => /\ ret'.result = "ValueError"
               /\ UNCHANGED <<automations, objs, jobs>>]_vars

\* C3 witness: an unknown kind was rejected while an automation and its job
\* were in place.
C3_Witness ==
    /\ ret.op = "create" /\ ret.result = "ValueError"
    /\ Stored # {}
    /\ jobs # <<>>

\* C4: when the last catalogue call was a successful enable of a time-based
\* automation it has exactly one job, and when it was a successful disable
\* it has none.
C4_TimersFollowLastCall ==
    (ret.result = "success" /\ ret.id \in Stored /\ IsTimeBased(ObjOf(ret.id)))
    => /\ ret.op = "enable" => JobCount(jobs, ret.id) = 1
       /\ ret.op = "disable" => JobCount(jobs, ret.id) = 0

\* C5: delete_automation of a stored time-based automation removes it from
\* the map and leaves no job tagged with its id; delete_automation of an id
\* that is not stored returns not-found and changes nothing.
C5_DeleteRemovesEntityAndTimers ==
    [][\A id \in IdInputs :
          DeleteStep(id) =>
            IF id \in Stored
            THEN /\ ret'.result = "success"
                 /\ id \notin DOMAIN automations'
                 /\ IsTimeBased(ObjOf(id)) => JobCount(jobs', id) = 0
            ELSE /\ ret'.result = "not_found"
                 /\ UNCHANGED <<automations, objs, jobs>>]_vars

\* C5 witness: a time-based automation that was enabled twice was deleted,
\* and a second delete of its id returned not-found.
C5_Witness ==
    /\ ret.op = "delete" /\ ret.result = "not_found"
    /\ ret.id \notin Stored
    /\ \E k \in DOMAIN objs : objs[k].id = ret.id /\ Schedulable(objs[k])
    /\ registered = MaxJobs
    /\ jobs = <<>>

\* C6: once every trigger_automation call has returned, the run_count of
\* each automation equals the number of calls that ran it (it starts at 0).
C6_NoLostIncrement ==
    InFlight = {} =>
        \A o \in DOMAIN objs : objs[o].run_count = returned[o]

\* a thread inside the statistics update of trigger_automation: last_run is
\* stored and the store of run_count is still to come
InUpdate(t) == thr[t].pc \in {"read", "write"}

\* C7: at most one thread at a time is inside the read-modify-write of an
\* Automation record that ends a run.
C7_MutationsExcludeEachOther ==
    Cardinality({ t \in Callers : InUpdate(t) }) <= 1

\* C8: trigger_automation of a stored, disabled automation returns the
\* disabled error, starts no run, dispatches nothing, and leaves every
\* automation record (run_count and last_run included) as it was.
C8_DisabledTriggerRefused ==
    [][\A t \in Callers, id \in IdInputs, ctx \in ContextInputs :
          (id \in Stored /\ ~ObjOf(id).enabled /\ TriggerCall(t, id, ctx))
          => /\ ret' = [op |-> "trigger", id |-> id, result |-> "disabled"]
             /\ thr' = thr
             /\ dispatched' = dispatched
             /\ objs' = objs]_vars

\* C8 witness: an automation that has run was disabled, and a trigger of it
\* was refused.
C8_Witness ==
    /\ ret.op = "trigger" /\ ret.result = "disabled"
    /\ ret.id \in Stored
    /\ ObjOf(ret.id).run_count > 0
    /\ ObjOf(ret.id).last_run # None

\* the context leaves a condition of the list unmet: a named flag is false
Unmet(conditions, ctx) ==
    \E k \in 1..Len(conditions) :
        conditions[k] \in DOMAIN ctx /\ ~ctx[conditions[k]]

\* C9: trigger_automation of a stored, enabled automation whose conditions
\* the context does not satisfy returns the conditions-not-met error, starts
\* no run, dispatches nothing, and leaves every automation record as it was.
C9_UnmetConditionsRefused ==
    [][\A t \in Callers, id \in IdInputs, ctx \in ContextInputs :
          (/\ id \in Stored
           /\ ObjOf(id).enabled
           /\ Unmet(ObjOf(id).conditions, ctx)
           /\ TriggerCall(t, id, ctx))
          => /\ ret' = [op |-> "trigger", id |-> id,
                        result |-> "conditions_not_met"]
             /\ thr' = thr
             /\ dispatched' = dispatched
             /\ objs' = objs]_vars

\* C9 witness: an enabled automation that has run refused a trigger whose
\* context left its condition unmet.
C9_Witness ==
    /\ ret.op = "trigger" /\ ret.result = "conditions_not_met"
    /\ ret.id \in Stored
    /\ ObjOf(ret.id).enabled
    /\ ObjOf(ret.id).run_count > 0

\* C10: the results of a run hold one entry per action dispatched so far, in
\* the order of the action list; the loop is left only with one entry for
\* every action, whichever dispatches raised, and the run then goes on to
\* record its statistics and return.
C10_OneResultPerActionInOrder ==
    \A t \in InFlight :
        LET actions == objs[thr[t].obj].actions
            results == thr[t].results
        IN /\ Len(results) <= Len(actions)
           /\ \A k \in 1..Len(results) : results[k].action = actions[k].type
           /\ thr[t].pc = "exec" => Len(results) = thr[t].i - 1
           /\ thr[t].pc \in {"last_run", "read", "write"}
                 => Len(results) = Len(actions)

\* C10 witness: a run whose first action raised is about to return two
\* results, the second of them a success.
C10_Witness ==
    \E t \in Callers :
        /\ thr[t].pc = "write"
        /\ Len(thr[t].results) = 2
        /\ ~thr[t].results[1].success
        /\ thr[t].results[2].success

\* did some action of the run fail
AnyFailed(results) == \E k \in 1..Len(results) : ~results[k].success

\* C11: the return of a completed run increments run_count by one and sets
\* success_rate to (previous rate * previous run_count + x) / (previous
\* run_count + 1), where x is 0 when an action of the run failed and 1 when
\* all succeeded.  Rates are fractions num/den, compared by cross
\* multiplication.
C11_SuccessRateFollowsRuns ==
    [][\A t \in Callers :
          WriteRunCount(t) =>
            LET prev == objs[thr[t].obj]
                next == objs'[thr[t].obj]
                x    == IF AnyFailed(thr[t].results) THEN 0 ELSE 1
            IN /\ next.run_count = prev.run_count + 1
               /\ next.success_rate.num * prev.success_rate.den
                     * (prev.run_count + 1)
                  = next.success_rate.den
                     * (prev.success_rate.num * prev.run_count
                        + x * prev.success_rate.den)]_vars

\* C12: run_count is 0 right after creation, and the run_count read
\* through an automation id never decreases from one state to the next.
C12_RunCountNeverDecreases ==
    [][/\ \A id \in Stored' \ Stored :
             objs'[automations'[id]].run_count = 0
       /\ \A id \in Stored \cap Stored' :
             objs'[automations'[id]].run_count >= ObjOf(id).run_count]_vars

\* C13: the success_rate of every automation is a fraction between 0 and 1,
\* and it is 1 while the run_count of the automation is 0.
C13_SuccessRateInRange ==
    \A k \in DOMAIN objs :
        LET r == objs[k].success_rate
        IN /\ r.den > 0
           /\ 0 <= r.num
           /\ r.num <= r.den
           /\ objs[k].run_count = 0 => r.num = r.den

\* C13 witness: an automation that has completed a run is about to complete
\* another one in which an action failed.
C13_Witness ==
    \E t \in Callers :
        /\ thr[t].pc = "write"
        /\ AnyFailed(thr[t].results)
        /\ objs[thr[t].obj].run_count = 1

\* C14: no catalogue call raises to its caller: a create_automation that
\* fails validation ends with an error value, never with ValueError.
C14_NoCallRaises == ret.result # "ValueError"

\* calendar fields of an instant (local time; day 0 is a Thursday)
MinuteOf(t) == (t \div 60) % 60
HourOf(t) == (t \div 3600) % 24
WeekdayOf(t) == ((t \div Day) + 4) % 7

\* the instants a five-field expression names, for the expressions the
\* callers pass
CronFires(cron, t) ==
    CASE cron = "0 8 * * *"  -> t % 60 = 0 /\ MinuteOf(t) = 0 /\ HourOf(t) = 8
      [] cron = "30 9 * * 1" -> /\ t % 60 = 0 /\ MinuteOf(t) = 30
                                /\ HourOf(t) = 9 /\ WeekdayOf(t) = 1
      [] OTHER               -> FALSE

\* jobs of the list js whose job function was bound to the object ref
JobsOf(js, ref) == { k \in 1..Len(js) : js[k].obj = ref }

\* C15: when the last call was a create_automation that stored a
\* time-based automation, exactly one job runs that automation, and the job
\* is due at an instant that its five-field expression names.
C15_OneTimerPerCronExpression ==
    (ret.op = "create" /\ ret.result = "created" /\ ret.id \in Stored
       /\ IsTimeBased(ObjOf(ret.id)))
    => /\ Cardinality(JobsOf(jobs, automations[ret.id])) = 1
       /\ \A k \in JobsOf(jobs, automations[ret.id]) :
             CronFires(ObjOf(ret.id).trigger.condition, jobs[k].next_run)

\* the dictionary that binds the keys the optional record d binds
DictOf(d) == [key \in { k \in DOMAIN d : d[k] # None } |-> d[key][1]]

\* C16: create_from_template of a known template stores an
\* automation whose name, trigger, actions and conditions are each the
\* override where one is given and the template's value where none is; an
\* unknown template returns an error and changes neither the map, nor the
\* objects, nor the job list.
C16_OverridesReplaceFields ==
    [][\A template_name \in TemplateNameInputs,
          customizations \in CustomizationInputs :
            TemplateStep(template_name, customizations) =>
              IF template_name \in DOMAIN Templates
              THEN LET template == Templates[template_name]
                       o == objs'[Len(objs')]
                   IN /\ ret'.result = "created"
                      /\ automations'[ret'.id] = Len(objs')
                      /\ o.name = DictGet(customizations, "name",
                                          template.name)
                      /\ o.trigger =
                           IF customizations.trigger = None
                           THEN ParseTrigger(template.trigger)
                           ELSE ParseTrigger(DictOf(customizations.trigger[1]))
                      /\ o.actions = DictGet(customizations, "actions",
                                             template.actions)
                      /\ o.conditions = DictGet(customizations, "conditions",
                                                template.conditions)
              ELSE /\ ret'.result = "template_not_found"
                   /\ UNCHANGED <<automations, objs, jobs>>]_vars

\* the condition names _check_conditions evaluates
ConditionNames == {"work_mode", "personal_mode", "upcoming_meeting"}

\* C17: no automation is stored with a condition name outside the names
\* the evaluator knows: a creation naming one is rejected.
C17_UnknownConditionRejected ==
    \A id \in Stored :
        \A k \in 1..Len(ObjOf(id).conditions) :
            ObjOf(id).conditions[k] \in ConditionNames

\* C18: a scheduled firing enters the execution of an automation that has
\* actions only if, at that moment, the automation is enabled and its
\* conditions hold in the context the firing passes.
C18_FiringChecksEnabledAndConditions ==
    [][\A w \in Workers :
          StartJob(w) =>
            LET o == objs[Head(worker[w].queue).obj]
            IN o.actions # <<>>
                 => o.enabled /\ CheckConditions(o.conditions, NoContext)]_vars

\* C19: when the execution started by a scheduled firing returns, the
\* last_run of the automation is set to the current instant and its
\* run_count has risen by one.
C19_FiringUpdatesStatistics ==
    [][\A w \in Workers :
          JobDone(w) =>
            LET ref == Head(worker[w].queue).obj
            IN /\ objs'[ref].last_run = <<now>>
               /\ objs'[ref].run_count = objs[ref].run_count + 1]_vars

\* C20: no two worker threads are executing the same automation for the
\* same due instant.
C20_SlotFiresOnce ==
    \A v, w \in Workers :
        (v # w /\ worker[v].pc = "job" /\ worker[w].pc = "job")
        => ~(/\ Head(worker[v].queue).obj = Head(worker[w].queue).obj
             /\ Head(worker[v].queue).next_run = Head(worker[w].queue).next_run)

\* C21: when a scheduled run of an automation that is still stored and
\* enabled returns, a job tagged with the id of the automation is pending
\* for an instant later than the current one.
C21_FireRearmsTimer ==
    [][\A w \in Workers :
          JobDone(w) =>
            LET ref == Head(worker[w].queue).obj
                id  == objs[ref].id
            IN (objs[ref].enabled /\ id \in Stored /\ automations[id] = ref)
               => \E k \in 1..Len(jobs') :
                     /\ jobs'[k].tag = id
                     /\ jobs'[k].obj = ref
                     /\ jobs'[k].next_run > now']_vars

\* C21 witness: the 08:00 job of an automation created at midnight,
\* re-armed when its run of the first day returned, is running at 08:00 of
\* the second day.
C21_Witness ==
    /\ now = EightAM + Day
    /\ \E w \in Workers :
          /\ worker[w].pc = "job"
          /\ Head(worker[w].queue).next_run = EightAM + Day
          /\ Head(worker[w].queue).tag \in Stored
          /\ ObjOf(Head(worker[w].queue).tag).enabled
          /\ ObjOf(Head(worker[w].queue).tag).created_at = 0
          /\ objs[Head(worker[w].queue).obj].created_at = 0

\* C22: an action that raises inside a scheduled run leaves the worker in
\* that run with the jobs it set aside, and when the run returns, whatever
\* its results, the worker goes on to the next job that was due in the same
\* call of run_pending, or back to polling when there is none.
C22_WorkerErrorsContained ==
    [][\A w \in Workers :
          /\ WorkerExecuteAction(w) =>
                /\ worker'[w].pc = "job"
                /\ worker'[w].queue = worker[w].queue
                /\ Len(worker'[w].results) = Len(worker[w].results) + 1
          /\ JobDone(w) =>
                /\ worker'[w].queue = Tail(worker[w].queue)
                /\ worker'[w].pc = IF Tail(worker[w].queue) = <<>>
                                   THEN "sleep" ELSE "due"]_vars

\* C22 witness: the first of the jobs of two automations due together is
\* about to return with
\* a failed action while the second is still set aside.
C22_Witness ==
    \E w \in Workers :
        /\ worker[w].pc = "job"
        /\ Len(worker[w].queue) = 2
        /\ worker[w].queue[1].tag # worker[w].queue[2].tag
        /\ worker[w].i > Len(objs[Head(worker[w].queue).obj].actions)
        /\ AnyFailed(worker[w].results)

\* C23: while the worker of an engine is in the delay of one automation and
\* the job of another automation is due, the loop of that engine is free
\* to take up a due job.
C23_LoopNeverBlocked ==
    \A w \in Workers :
        (/\ worker[w].pc = "delay"
         /\ \E k \in 1..Len(jobs) :
               /\ jobs[k].next_run <= now
               /\ jobs[k].tag # Head(worker[w].queue).tag)
        => ENABLED (RunPending(w) \/ StartJob(w))

RECURSIVE SumDelays(_, _)
\* the delays of the first n actions of the list, added up
SumDelays(actions, n) ==
    IF n = 0 THEN 0
    ELSE SumDelays(actions, n - 1) + actions[n].delay_seconds

\* C24: in a scheduled run the results are those of the first actions of
\* the list, in order; the worker is in the delay of an action before the
\* result of that action exists; and the result of an action exists only
\* when the delays of all actions up to it have elapsed since the due
\* instant.
C24_DelayPrecedesAction ==
    \A w \in Workers :
        worker[w].pc \in {"job", "delay"} =>
            LET actions == objs[Head(worker[w].queue).obj].actions
                results == worker[w].results
            IN /\ Len(results) = worker[w].i - 1
               /\ Len(results) <= Len(actions)
               /\ \A k \in 1..Len(results) : results[k].action = actions[k].type
               /\ worker[w].pc = "delay"
                     => actions[worker[w].i].delay_seconds > 0
               /\ now >= Head(worker[w].queue).next_run
                            + SumDelays(actions, Len(results))

\* C24 witness: the run of the 08:00 job holds the result of create_task
\* and that of send_message, 30 seconds after the due instant.
C24_Witness ==
    \E w \in Workers :
        /\ worker[w].pc = "job"
        /\ now = EightAM + 30
        /\ Len(worker[w].results) = 2
        /\ worker[w].results[1].action = "create_task"
        /\ worker[w].results[2].action = "send_message"

\* a list evaluated as the conjunction of registered predicates, a name
\* without a predicate counting as unmet
FailsClosed(conditions, ctx) ==
    \A k \in 1..Len(conditions) :
        /\ conditions[k] \in ConditionNames
        /\ ConditionMet(conditions[k], ctx)

\* C25: a trigger_automation call on a stored, enabled automation starts a
\* run exactly when its condition list is empty or every name in it is a
\* known condition that holds in the context; a list with an unknown name
\* starts no run.
C25_UnknownConditionFailsClosed ==
    [][\A t \in Callers, id \in IdInputs, ctx \in ContextInputs :
          (TriggerCall(t, id, ctx) /\ id \in Stored /\ ObjOf(id).enabled)
          => (thr'[t].pc # "idle"
                <=> FailsClosed(ObjOf(id).conditions, ctx))]_vars

\* is the object ref the automation stored under its id, and enabled
Live(ref) ==
    /\ objs[ref].enabled
    /\ objs[ref].id \in Stored
    /\ automations[objs[ref].id] = ref

\* C26: a disable_automation or delete_automation leaves every run in
\* flight where it is, with the results it holds, and no scheduled firing
\* starts for an automation that was disabled or deleted while a
\* trigger_automation run of it, still in flight, was executing.
C26_InFlightRunKeptNoNewFiring ==
    [][/\ \A id \in IdInputs :
             (DisableStep(id) \/ DeleteStep(id)) => thr' = thr
       /\ \A w \in Workers :
             StartJob(w) =>
               ~\E t \in InFlight :
                   /\ thr[t].obj = Head(worker[w].queue).obj
                   /\ ~Live(thr[t].obj)]_vars

\* C27: enable_automation, disable_automation, delete_automation and
\* trigger_automation called with an id that is not stored return not-found
\* and change neither the automations map, nor any automation object, nor
\* the job list; the trigger starts no run.
C27_NotFoundChangesNothing ==
    [][\A id \in IdInputs :
          id \notin Stored =>
            /\ (EnableStep(id) \/ DisableStep(id) \/ DeleteStep(id))
                  => /\ ret'.result = "not_found"
                     /\ UNCHANGED <<automations, objs, jobs>>
            /\ \A t \in Callers, ctx \in ContextInputs :
                  TriggerCall(t, id, ctx)
                  => /\ ret'.result = "not_found"
                     /\ UNCHANGED <<automations, objs, jobs, thr>>]_vars

\* C27 witness: a trigger of an id that is not stored returned not-found
\* while an automation was stored with its job and a run was in flight.
C27_Witness ==
    /\ ret.op = "trigger" /\ ret.result = "not_found"
    /\ ret.id \notin Stored
    /\ Stored # {}
    /\ jobs # <<>>
    /\ InFlight # {}

\* C28: every stored automation has no last_run exactly when its
\* run_count is 0, in every state a concurrent get_active_automations can
\* read.
C28_LastRunIffRunCount ==
    \A id \in Stored :
        ObjOf(id).last_run = None <=> ObjOf(id).run_count = 0

\* an entry that is a success exactly when it holds a returned value, and
\* that holds the error payload as a success for custom_script
RecordedAsDispatched(r) ==
    /\ r.success <=> r.result # None
    /\ r.action = "custom_script"
          => r.success /\ r.result = <<"error_payload">>

\* C29: every result entry of a run has success false exactly when the
\* dispatch of its action raised, so that it holds no returned value; the
\* entry of custom_script, whose dispatch returns the error payload, is a
\* success.
C29_SuccessMeansNoException ==
    /\ \A t \in Callers : \A k \in 1..Len(thr[t].results) :
          RecordedAsDispatched(thr[t].results[k])
    /\ \A w \in Workers : \A k \in 1..Len(worker[w].results) :
          RecordedAsDispatched(worker[w].results[k])

\* C29 witness: a run holds the entry of custom_script, a success with the
\* error payload, and the entry of a send_message that raised.
C29_Witness ==
    \E t \in Callers :
        /\ Len(thr[t].results) = 2
        /\ thr[t].results[1].action = "custom_script"
        /\ thr[t].results[1].success
        /\ thr[t].results[1].result = <<"error_payload">>
        /\ ~thr[t].results[2].success

\* C30: at most one thread of the engine is in _worker_loop.
C30_AtMostOneWorkerLoop == Cardinality(eng.loops) <= 1

====
